---------------------------- MODULE Spec2Model ----------------------------
(***************************************************************************)
(* Model of the Myanmar EPUB book list (the most feature-complete App.vue  *)
(* variant, src/unnamed/part_002 lines 1419-2148): the catalog loader,     *)
(* history-synchronised modals, the reader session, the favorites store,   *)
(* the filter engine, the image cache and its preload passes, and the      *)
(* favorites of two tabs that share localStorage.                          *)
(*                                                                         *)
(* Strings are sequences of one-character strings, so that concatenation,  *)
(* trimming, lower-casing, substring search and URI encoding are computed  *)
(* character by character.  A book is referred to by its index in `books`  *)
(* (0 stands for null); the catalog is never mutated after the load.       *)
(***************************************************************************)
EXTENDS Integers, Sequences, FiniteSets, TLC

VARIABLES
    books,              \* books.value: the catalog, a sequence of book records
    loading,            \* loading.value
    error,              \* error.value is set (TRUE) or null (FALSE)
    requests,           \* axios.get calls issued for summary.json
    reply,              \* what the catalog request ended with; kind "none" while it has not
    selectedBook,       \* selectedBook.value: index into books, 0 = null
    showBookDetail,     \* showBookDetail.value
    showEpubReader,     \* showEpubReader.value
    currentBook,        \* currentBook.value: index into books, 0 = null
    epubBook,           \* epubBook.value: engine book instance (its book index), 0 = null
    rendition,          \* rendition.value: engine rendition (its book index), 0 = null
    keydownListener,    \* handleEpubNavigation is registered on document 'keydown'
    entries,            \* window.history: the session history entries
    index,              \* window.history: position of the current entry
    pending,            \* openEpubReader calls suspended at `await rendition.display()`
    live,               \* engine objects (book, rendition) made and not yet destroyed
    alerted,            \* the handler that ran last called alert()
    engineCmd,          \* what the handler that ran last told the rendition: prev, next or none
    readerWasShown,     \* showEpubReader.value when the handler that ran last started
    owners,             \* per history entry, the book whose view pushed it (0: none)
    favorites,          \* favorites.value: whatever JSON.parse returned, or an array
    stored,             \* localStorage item 'epub-favorites'
    mounted,            \* onMounted has called loadFavorites
    threw,              \* the handler that ran last ended in an uncaught TypeError
    writeFailed,        \* localStorage.setItem threw in the last saveFavorites call
    tab2,               \* a second tab on the same origin: its favorites.value and flags
    searchQuery,        \* searchQuery.value
    selectedAuthor,     \* selectedAuthor.value
    selectedCategory,   \* selectedCategory.value
    showFavoritesOnly,  \* showFavoritesOnly.value
    trail,              \* the favorites and the stored item before each of the last two handlers
    cachedImageUrls,    \* cachedImageUrls.value: Map from cache key to blob URL
    imgFlags,           \* cache keys k whose localStorage item 'img-cache-k' is 'true'
    calls,              \* the cacheImage / getImageUrl calls of this session, in start order
    blobCount,          \* blob URLs made by URL.createObjectURL so far
    passes,             \* log of preloadVisibleImages() runs
    op                  \* the handler that ran last: <<name, book index>>, with the
                        \* tab it ran in as a third element where two tabs are followed

nav == <<selectedBook, showBookDetail, showEpubReader, currentBook, epubBook,
         rendition, keydownListener, entries, index, pending, live, alerted, engineCmd,
         readerWasShown, owners>>

fav == <<favorites, stored, mounted, threw, writeFailed, trail, tab2>>

filt == <<searchQuery, selectedAuthor, selectedCategory, showFavoritesOnly>>

img == <<cachedImageUrls, imgFlags, calls, blobCount, passes>>

load == <<loading, error, requests, reply>>

vars == <<books, load, nav, fav, filt, img, op>>

\* what the navigation handlers leave alone
notNav == <<books, load, fav, filt, img>>

\* onMounted has run to its end and the catalog has arrived
LoadInit ==
    /\ loading = FALSE
    /\ error = FALSE
    /\ requests = 1
    /\ reply = [kind |-> "ok", book |-> books]

\* the image cache of a session in which no cover was resolved
ImgInit ==
    /\ cachedImageUrls = <<>>
    /\ imgFlags = {}
    /\ calls = <<>>
    /\ blobCount = 0
    /\ passes = <<>>

-----------------------------------------------------------------------------
(* Bounds of the model *)

\* longest session history explored
MaxHist == 4
\* most openEpubReader calls suspended at the same time
MaxPending == 2
\* most cover resolutions started in one session
MaxCalls == 2
\* longest book array in a summary.json response
MaxResponse == 2
\* longest favorites list found in storage at startup
MaxStored == 2
\* longest catalog the filter engine is run on
MaxCatalog == 2
\* most preload passes started in one session
MaxPasses == 2

-----------------------------------------------------------------------------
(* Strings *)

EmptyStr == <<>>

RECURSIVE Flatten(_)
Flatten(ss) == IF ss = <<>> THEN <<>> ELSE Head(ss) \o Flatten(Tail(ss))

\* encodeURIComponent on one character: unreserved characters pass, the rest
\* become the percent-encoding of their UTF-8 byte
EncodeChar(c) ==
    CASE c = " " -> <<"%", "2", "0">>
      [] c = "|" -> <<"%", "7", "C">>
      [] OTHER   -> <<c>>

encodeURIComponent(s) == Flatten([i \in 1..Len(s) |-> EncodeChar(s[i])])

-----------------------------------------------------------------------------
(* Catalog *)

Book(author, name, category, isCoverImg) ==
    [author |-> author, name |-> name, category |-> category, isCoverImg |-> isCoverImg]

BookAX == Book(<<"A">>, <<"X">>, <<"F", "i", "c", "t", "i", "o", "n">>, TRUE)
BookBY == Book(<<"B">>, <<"Y">>, <<"P", "o", "e", "t", "r", "y">>, FALSE)
BookBX == Book(<<"B">>, <<"X">>, <<"P", "o", "e", "t", "r", "y">>, TRUE)

\* a loaded catalog in which a name is unique only within its author
NavCatalog == <<BookAX, BookBY, BookBX>>

\* books.value.find(b => b.name === bookName): the first match, 0 = undefined
FindByName(bs, bookName) ==
    IF \E i \in 1..Len(bs) : bs[i].name = bookName
    THEN CHOOSE i \in 1..Len(bs) :
            /\ bs[i].name = bookName
            /\ \A j \in 1..(i - 1) : bs[j].name # bookName
    ELSE 0

-----------------------------------------------------------------------------
(* window.history and window.location *)

NoState == [kind |-> "none", bookName |-> EmptyStr]
BookDetailState(name) == [kind |-> "bookDetail", bookName |-> name]
EpubReaderState(name) == [kind |-> "epubReader", bookName |-> name]

Entry(state, hash) == [state |-> state, hash |-> hash]

\* history.pushState: drops the forward entries, appends one, moves onto it
pushState(s, state, hash) ==
    [s EXCEPT !.entries = SubSeq(s.entries, 1, s.index) \o <<Entry(state, hash)>>,
              !.owners = SubSeq(s.owners, 1, s.index) \o <<0>>,
              !.index = s.index + 1]

\* history.replaceState: overwrites the current entry in place
replaceState(s, state, hash) ==
    [s EXCEPT !.entries[s.index] = Entry(state, hash), !.owners[s.index] = 0]

\* window.location.hash of the current entry
locationHash(s) == s.entries[s.index].hash

\* event.state of the popstate event: the state of the entry traversed to
eventState(s) == s.entries[s.index].state

-----------------------------------------------------------------------------
(* More strings *)

\* remove the k-th element of a sequence
RemoveAt(q, k) == SubSeq(q, 1, k - 1) \o SubSeq(q, k + 1, Len(q))

\* String.prototype.indexOf / Array-free substring search: the least 0-based
\* position at which q occurs in s, -1 when it does not occur
StrIndexOf(s, q) ==
    LET hits == {i \in 0..(Len(s) - Len(q)) : SubSeq(s, i + 1, i + Len(q)) = q}
    IN  IF hits = {} THEN -1 ELSE CHOOSE i \in hits : \A j \in hits : i <= j

\* String.prototype.includes
StrIncludes(s, q) == StrIndexOf(s, q) > -1

-----------------------------------------------------------------------------
(* JavaScript values that JSON.parse can hand to favorites.value, and JSON  *)
(* texts without white space or escapes                                    *)

JArray(items) == [type |-> "array", items |-> items, text |-> EmptyStr]
JString(text) == [type |-> "string", items |-> <<>>, text |-> text]
JNull == [type |-> "null", items |-> <<>>, text |-> EmptyStr]
JObject == [type |-> "object", items |-> <<>>, text |-> EmptyStr]
JNumber == [type |-> "number", items |-> <<>>, text |-> EmptyStr]

Quote == "\""

Quoted(s) == <<Quote>> \o s \o <<Quote>>

RECURSIVE JoinQuoted(_)
JoinQuoted(items) ==
    IF items = <<>> THEN <<>>
    ELSE IF Len(items) = 1 THEN Quoted(items[1])
    ELSE Quoted(items[1]) \o <<",">> \o JoinQuoted(Tail(items))

\* JSON.stringify(value)
stringify(v) ==
    CASE v.type = "array"  -> <<"[">> \o JoinQuoted(v.items) \o <<"]">>
      [] v.type = "string" -> Quoted(v.text)
      [] v.type = "null"   -> <<"n", "u", "l", "l">>
      [] v.type = "object" -> <<"{", "}">>
      [] v.type = "number" -> <<"5">>

ParseFailure == [ok |-> FALSE, value |-> JNull]
Parsed(v) == [ok |-> TRUE, value |-> v]

\* the elements of a JSON array of strings, t being the text between the brackets
RECURSIVE ParseItems(_)
ParseItems(t) ==
    IF Len(t) < 2 \/ t[1] # Quote THEN [ok |-> FALSE, items |-> <<>>]
    ELSE LET close == StrIndexOf(Tail(t), <<Quote>>) + 2
             rest == SubSeq(t, close + 1, Len(t))
         IN  IF close < 2 THEN [ok |-> FALSE, items |-> <<>>]
             ELSE IF rest = <<>> THEN [ok |-> TRUE, items |-> <<SubSeq(t, 2, close - 1)>>]
             ELSE IF rest[1] # "," THEN [ok |-> FALSE, items |-> <<>>]
             ELSE LET more == ParseItems(Tail(rest))
                  IN  [ok |-> more.ok,
                       items |-> <<SubSeq(t, 2, close - 1)>> \o more.items]

\* JSON.parse(text): ok = FALSE stands for the SyntaxError it throws
parse(t) ==
    LET n == Len(t)
        inner == SubSeq(t, 2, n - 1)
    IN  IF t = <<"n", "u", "l", "l">> THEN Parsed(JNull)
        ELSE IF t = <<"{", "}">> THEN Parsed(JObject)
        ELSE IF t = <<"5">> THEN Parsed(JNumber)
        ELSE IF n >= 2 /\ t[1] = Quote /\ t[n] = Quote
        THEN IF StrIncludes(inner, <<Quote>>) THEN ParseFailure
             ELSE Parsed(JString(inner))
        ELSE IF n >= 2 /\ t[1] = "[" /\ t[n] = "]"
        THEN IF inner = <<>> THEN Parsed(JArray(<<>>))
             ELSE LET r == ParseItems(inner)
                  IN  IF r.ok THEN Parsed(JArray(r.items)) ELSE ParseFailure
        ELSE ParseFailure

\* localStorage.getItem: null for a missing key, else the text
Absent == [present |-> FALSE, text |-> EmptyStr]
Item(text) == [present |-> TRUE, text |-> text]

-----------------------------------------------------------------------------
(* Favorites store *)

\* a tab in which onMounted has not reached loadFavorites() yet
NoTab == [favorites |-> [type |-> "array", items |-> <<>>, text |-> <<>>],
          mounted |-> FALSE, threw |-> FALSE, writeFailed |-> FALSE]

\* getFavoriteKey(book)
getFavoriteKey(book) == book.author \o <<"|">> \o book.name

\* Array.prototype.indexOf, 0-based, -1 when absent
ArrIndexOf(items, key) ==
    LET hits == {i \in 1..Len(items) : items[i] = key}
    IN  IF hits = {} THEN -1 ELSE (CHOOSE i \in hits : \A j \in hits : i <= j) - 1

\* loadFavorites(): the value of favorites.value afterwards
loadFavorites(fv, item) ==
    IF item.present /\ item.text # EmptyStr
    THEN IF parse(item.text).ok THEN parse(item.text).value ELSE JArray(<<>>)
    ELSE fv

\* isFavorite(book): its result, or the TypeError of calling .includes on a
\* value that has none
isFavorite(fv, book) ==
    CASE fv.type = "array"  ->
            [threw |-> FALSE, value |-> ArrIndexOf(fv.items, getFavoriteKey(book)) > -1]
      [] fv.type = "string" ->
            [threw |-> FALSE, value |-> StrIncludes(fv.text, getFavoriteKey(book))]
      [] OTHER -> [threw |-> TRUE, value |-> FALSE]

\* saveFavorites() that keeps what another tab has stored: the keys of the
\* stored list first, then those of favorites.value that it lacks
saveFavoritesMergeStored(fv, item, setItemThrows) ==
    LET old == loadFavorites(fv, item)
    IN  IF setItemThrows THEN item
        ELSE IF old.type = "array" /\ fv.type = "array"
        THEN Item(stringify(JArray(old.items \o
                 SelectSeq(fv.items, LAMBDA k : ArrIndexOf(old.items, k) = -1))))
        ELSE Item(stringify(fv))

\* saveFavorites(): the stored item afterwards; setItem may throw (quota,
\* storage disabled), which the catch block swallows
saveFavorites(fv, item, setItemThrows) ==
    IF setItemThrows THEN item ELSE Item(stringify(fv))

\* toggleFavorite(book) that calls saveFavorites() in the add branch only
toggleFavoriteSaveOnAddOnly(fv, item, book, setItemThrows) ==
    LET key == getFavoriteKey(book)
    IN  IF fv.type = "array"
        THEN LET i == ArrIndexOf(fv.items, key)
             IN  IF i > -1
                 THEN [favorites |-> JArray(RemoveAt(fv.items, i + 1)), stored |-> item,
                       threw |-> FALSE, writeFailed |-> FALSE]
                 ELSE [favorites |-> JArray(Append(fv.items, key)),
                       stored |-> saveFavorites(JArray(Append(fv.items, key)), item,
                                                setItemThrows),
                       threw |-> FALSE, writeFailed |-> setItemThrows]
        ELSE [favorites |-> fv, stored |-> item, threw |-> TRUE, writeFailed |-> FALSE]

\* toggleFavorite(book) that pushes without looking the key up
toggleFavoriteAlwaysAdds(fv, item, book, setItemThrows) ==
    IF fv.type = "array"
    THEN LET after == JArray(Append(fv.items, getFavoriteKey(book)))
         IN  [favorites |-> after,
              stored |-> saveFavorites(after, item, setItemThrows),
              threw |-> FALSE, writeFailed |-> setItemThrows]
    ELSE [favorites |-> fv, stored |-> item, threw |-> TRUE, writeFailed |-> FALSE]

\* toggleFavorite(book) with splice(index, 2): the next key goes as well
toggleFavoriteSpliceTwo(fv, item, book, setItemThrows) ==
    LET key == getFavoriteKey(book)
    IN  IF fv.type = "array"
        THEN LET i == ArrIndexOf(fv.items, key)
                 after == IF i > -1
                          THEN JArray(SubSeq(fv.items, 1, i)
                                          \o SubSeq(fv.items, i + 3, Len(fv.items)))
                          ELSE JArray(Append(fv.items, key))
             IN  [favorites |-> after,
                  stored |-> saveFavorites(after, item, setItemThrows),
                  threw |-> FALSE, writeFailed |-> setItemThrows]
        ELSE [favorites |-> fv, stored |-> item, threw |-> TRUE, writeFailed |-> FALSE]

\* toggleFavorite(book): favorites.value and the stored item afterwards.
\* On a value without indexOf, or a string (indexOf but neither splice nor
\* push), the call ends in a TypeError before saveFavorites is reached.
toggleFavorite(fv, item, book, setItemThrows) ==
    LET key == getFavoriteKey(book)
    IN  IF fv.type = "array"
        THEN LET i == ArrIndexOf(fv.items, key)
                 after == IF i > -1
                          THEN JArray(RemoveAt(fv.items, i + 1))
                          ELSE JArray(Append(fv.items, key))
             IN  [favorites |-> after,
                  stored |-> saveFavorites(after, item, setItemThrows),
                  threw |-> FALSE, writeFailed |-> setItemThrows]
        ELSE [favorites |-> fv, stored |-> item, threw |-> TRUE, writeFailed |-> FALSE]

-----------------------------------------------------------------------------
(* The navigation state as one record, so that a handler is a function from *)
(* state to state and handlers that call each other compose.  A handler     *)
(* starts with no alert shown and no command given to the rendition.        *)

S ==
    [selectedBook |-> selectedBook, showBookDetail |-> showBookDetail,
     showEpubReader |-> showEpubReader, currentBook |-> currentBook,
     epubBook |-> epubBook, rendition |-> rendition,
     keydownListener |-> keydownListener, entries |-> entries, index |-> index,
     pending |-> pending, live |-> live, alerted |-> FALSE, engineCmd |-> "none",
     readerWasShown |-> showEpubReader, owners |-> owners]

Becomes(s) ==
    /\ selectedBook' = s.selectedBook
    /\ showBookDetail' = s.showBookDetail
    /\ showEpubReader' = s.showEpubReader
    /\ currentBook' = s.currentBook
    /\ epubBook' = s.epubBook
    /\ rendition' = s.rendition
    /\ keydownListener' = s.keydownListener
    /\ entries' = s.entries
    /\ index' = s.index
    /\ pending' = s.pending
    /\ live' = s.live
    /\ alerted' = s.alerted
    /\ engineCmd' = s.engineCmd
    /\ readerWasShown' = s.readerWasShown
    /\ owners' = s.owners

-----------------------------------------------------------------------------
(* Handlers of part_002 *)

\* showBookDetails(book)
showBookDetails(s, b) ==
    LET t == pushState([s EXCEPT !.selectedBook = b, !.showBookDetail = TRUE],
                       BookDetailState(books[b].name),
                       <<"#", "b", "o", "o", "k", "-">> \o encodeURIComponent(books[b].name))
    IN  [t EXCEPT !.owners[t.index] = b]

\* closeBookDetail() as in the older variant (part_003): history.back()
\* instead of replaceState
closeBookDetailHistoryBack(s) ==
    LET t == [s EXCEPT !.showBookDetail = FALSE, !.selectedBook = 0]
    IN  IF locationHash(t) # EmptyStr /\ t.index > 1
        THEN [t EXCEPT !.index = t.index - 1]
        ELSE t

\* closeBookDetail()
closeBookDetail(s) ==
    LET t == [s EXCEPT !.showBookDetail = FALSE, !.selectedBook = 0]
    IN  IF locationHash(t) # EmptyStr THEN replaceState(t, NoState, EmptyStr) ELSE t

\* openEpubReader(book) without `showBookDetail.value = false`
openEpubReaderKeepDetail(s, b) ==
    LET t == pushState([s EXCEPT !.currentBook = b, !.showEpubReader = TRUE],
                       EpubReaderState(books[b].name),
                       <<"#", "r", "e", "a", "d", "i", "n", "g", "-">>
                           \o encodeURIComponent(books[b].name))
    IN  [t EXCEPT !.epubBook = b, !.rendition = b, !.live = @ + 2,
                  !.pending = Append(@, b), !.owners[t.index] = b]

\* openEpubReader(book), from its start to the suspension at
\* `await rendition.value.display()`.  `await nextTick()` resumes in the same
\* task's microtask checkpoint, before any other event is dispatched, and the
\* #epub-viewer element exists by then because showEpubReader is true.
openEpubReader(s, b) ==
    LET t == pushState([s EXCEPT !.currentBook = b, !.showEpubReader = TRUE,
                                 !.showBookDetail = FALSE],
                       EpubReaderState(books[b].name),
                       <<"#", "r", "e", "a", "d", "i", "n", "g", "-">>
                           \o encodeURIComponent(books[b].name))
    IN  [t EXCEPT !.epubBook = b, !.rendition = b, !.live = @ + 2,
                  !.pending = Append(@, b), !.owners[t.index] = b]

\* the number of engine objects held in rendition.value and epubBook.value
Held(s) == (IF s.rendition # 0 THEN 1 ELSE 0) + (IF s.epubBook # 0 THEN 1 ELSE 0)

\* closeEpubReader() without removeEventListener
closeEpubReaderKeepListener(s) ==
    LET t == [s EXCEPT !.showEpubReader = FALSE, !.currentBook = 0,
                       !.live = @ - Held(s),
                       !.rendition = 0, !.epubBook = 0]
    IN  IF locationHash(t) # EmptyStr THEN replaceState(t, NoState, EmptyStr) ELSE t

\* closeEpubReader(skipHistoryBack): the parameter is never read; each held
\* engine object is destroyed and let go
closeEpubReader(s) ==
    LET t == [s EXCEPT !.showEpubReader = FALSE, !.currentBook = 0,
                       !.live = @ - Held(s),
                       !.rendition = 0, !.epubBook = 0,
                       !.keydownListener = FALSE]
    IN  IF locationHash(t) # EmptyStr THEN replaceState(t, NoState, EmptyStr) ELSE t

\* openEpubReader resumed after display() fulfilled: registers the listener
displayFulfilled(s, k) ==
    [s EXCEPT !.pending = RemoveAt(@, k), !.keydownListener = TRUE]

\* a catch block that alerts and returns
displayRejectedAlertOnly(s, k) ==
    [s EXCEPT !.pending = RemoveAt(@, k), !.alerted = TRUE]

\* openEpubReader resumed after display() rejected: the catch block
displayRejected(s, k) ==
    closeEpubReader([s EXCEPT !.pending = RemoveAt(@, k), !.alerted = TRUE])

\* handlePopState(event) whose last branch leaves the detail view alone
handlePopStateKeepsDetail(s) ==
    LET st == eventState(s)
        book == FindByName(books, st.bookName)
    IN  IF st.kind = "epubReader"
        THEN IF book # 0 /\ ~s.showEpubReader THEN openEpubReader(s, book) ELSE s
        ELSE IF st.kind = "bookDetail"
        THEN LET t == IF book # 0
                      THEN [s EXCEPT !.selectedBook = book, !.showBookDetail = TRUE]
                      ELSE s
             IN  IF t.showEpubReader THEN closeEpubReader(t) ELSE t
        ELSE IF s.showEpubReader THEN closeEpubReader(s) ELSE s

\* handlePopState(event), run on the entry the browser has traversed to
handlePopState(s) ==
    LET st == eventState(s)
        book == FindByName(books, st.bookName)
    IN  IF st.kind = "epubReader"
        THEN IF book # 0 /\ ~s.showEpubReader THEN openEpubReader(s, book) ELSE s
        ELSE IF st.kind = "bookDetail"
        THEN LET t == IF book # 0
                      THEN [s EXCEPT !.selectedBook = book, !.showBookDetail = TRUE]
                      ELSE s
             IN  IF t.showEpubReader THEN closeEpubReader(t) ELSE t
        ELSE LET t == IF s.showEpubReader THEN closeEpubReader(s) ELSE s
             IN  IF t.showBookDetail
                 THEN [t EXCEPT !.showBookDetail = FALSE, !.selectedBook = 0]
                 ELSE t

\* handleEpubNavigation(event)
handleEpubNavigation(s, key) ==
    IF s.rendition = 0 THEN s
    ELSE CASE key = "ArrowLeft"  -> [s EXCEPT !.engineCmd = "prev"]
           [] key = "ArrowRight" -> [s EXCEPT !.engineCmd = "next"]
           [] key = "Escape"     -> closeEpubReader(s)
           [] OTHER              -> s

\* a keydown event on document: it reaches handleEpubNavigation while that
\* is registered
keydown(s, key) == IF s.keydownListener THEN handleEpubNavigation(s, key) ELSE s

\* the browser's own part of a back/forward traversal
traverse(s, delta) == [s EXCEPT !.index = s.index + delta]

-----------------------------------------------------------------------------
(* Actions: one per user gesture, browser event or resumed continuation *)

\* a state stays within the explored bounds
Within(s) == Len(s.entries) <= MaxHist /\ Len(s.pending) <= MaxPending

\* the filters and the grid are rendered (v-else of loading and error)
CatalogShown == ~loading /\ ~error

\* the grid is reachable by the pointer: it is rendered and no overlay covers it
GridShown == CatalogShown /\ ~showBookDetail /\ ~showEpubReader

\* click on a book card
SelectBook ==
    \E b \in 1..Len(books) :
        /\ GridShown
        /\ Within(showBookDetails(S, b))
        /\ Becomes(showBookDetails(S, b))
        /\ op' = <<"showBookDetails", b>>
        /\ UNCHANGED notNav

\* click on the detail overlay or its close button
CloseDetail ==
    /\ showBookDetail /\ ~showEpubReader
    /\ Becomes(closeBookDetail(S))
    /\ op' = <<"closeBookDetail", 0>>
    /\ UNCHANGED notNav

\* click on "Read Book" in the detail modal
ReadBook ==
    /\ showBookDetail /\ ~showEpubReader /\ selectedBook # 0
    /\ Within(openEpubReader(S, selectedBook))
    /\ Becomes(openEpubReader(S, selectedBook))
    /\ op' = <<"openEpubReader", selectedBook>>
    /\ UNCHANGED notNav

\* click on the reader's close button
CloseReader ==
    /\ showEpubReader
    /\ Becomes(closeEpubReader(S))
    /\ op' = <<"closeEpubReader", 0>>
    /\ UNCHANGED notNav

\* the engine fulfils a display() promise
DisplayFulfilled ==
    \E k \in 1..Len(pending) :
        /\ Becomes(displayFulfilled(S, k))
        /\ op' = <<"displayFulfilled", pending[k]>>
        /\ UNCHANGED notNav

\* the engine rejects a display() promise
DisplayRejected ==
    \E k \in 1..Len(pending) :
        /\ Becomes(displayRejected(S, k))
        /\ op' = <<"displayRejected", pending[k]>>
        /\ UNCHANGED notNav

\* Escape pressed
KeyEscape ==
    /\ Becomes(keydown(S, "Escape"))
    /\ op' = <<"keyEscape", 0>>
    /\ UNCHANGED notNav

\* an arrow key pressed
KeyArrow ==
    \E key \in {"ArrowLeft", "ArrowRight"} :
        /\ Becomes(keydown(S, key))
        /\ op' = <<"key" \o key, 0>>
        /\ UNCHANGED notNav

\* browser back button
BrowserBack ==
    /\ index > 1
    /\ Within(handlePopState(traverse(S, -1)))
    /\ Becomes(handlePopState(traverse(S, -1)))
    /\ op' = <<"back", 0>>
    /\ UNCHANGED notNav

\* browser forward button
BrowserForward ==
    /\ index < Len(entries)
    /\ Within(handlePopState(traverse(S, 1)))
    /\ Becomes(handlePopState(traverse(S, 1)))
    /\ op' = <<"forward", 0>>
    /\ UNCHANGED notNav

Init ==
    /\ books = NavCatalog
    /\ selectedBook = 0
    /\ showBookDetail = FALSE
    /\ showEpubReader = FALSE
    /\ currentBook = 0
    /\ epubBook = 0
    /\ rendition = 0
    /\ keydownListener = FALSE
    /\ entries = <<Entry(NoState, EmptyStr)>>
    /\ index = 1
    /\ pending = <<>>
    /\ live = 0
    /\ alerted = FALSE
    /\ engineCmd = "none"
    /\ readerWasShown = FALSE
    /\ owners = <<0>>
    /\ favorites = JArray(<<>>)
    /\ stored = Absent
    /\ mounted = TRUE
    /\ threw = FALSE
    /\ writeFailed = FALSE
    /\ tab2 = NoTab
    /\ searchQuery = EmptyStr
    /\ selectedAuthor = EmptyStr
    /\ selectedCategory = EmptyStr
    /\ showFavoritesOnly = FALSE
    /\ trail = <<>>
    /\ ImgInit
    /\ LoadInit
    /\ op = <<"mounted", 0>>

Next ==
    \/ SelectBook
    \/ CloseDetail
    \/ ReadBook
    \/ CloseReader
    \/ DisplayFulfilled
    \/ DisplayRejected
    \/ KeyEscape
    \/ KeyArrow
    \/ BrowserBack
    \/ BrowserForward

Spec == Init /\ [][Next]_vars

-----------------------------------------------------------------------------
(* Navigation / history sync: claims C1 - C4 *)

CurrentTag == entries[index].state

DetailOpenFor(name) ==
    showBookDetail /\ selectedBook # 0 /\ books[selectedBook].name = name

ReaderOpenFor(name) ==
    showEpubReader /\ currentBook # 0 /\ books[currentBook].name = name

BookNames == {books[i].name : i \in 1..Len(books)}

\* C1: after any sequence of select, read, close-detail, close-reader, back
\* and forward, the open modal matches the tag of the current history entry:
\* detail open for b iff the entry is tagged {bookDetail, b.name}, reader open
\* for b iff it is tagged {epubReader, b.name}, both closed iff it has no tag.
C1_ModalMatchesTag ==
    /\ \A n \in BookNames :
          /\ DetailOpenFor(n) <=> CurrentTag = BookDetailState(n)
          /\ ReaderOpenFor(n) <=> CurrentTag = EpubReaderState(n)
    /\ (~showBookDetail /\ ~showEpubReader) <=> CurrentTag = NoState

\* C2: the detail modal and the reader modal are never both open.
C2_NeverBothOpen == ~(showBookDetail /\ showEpubReader)

\* C2 witness: a popstate closed the reader and re-opened the detail view
\* while the reader's open was still awaiting display().
C2_Witness ==
    /\ op[1] = "back"
    /\ showBookDetail /\ ~showEpubReader
    /\ Len(pending) > 0

\* C3: handling a popstate event never pushes: the history stack has the same
\* entries and the same length after the handler as when the event arrived.
C3_PopStateKeepsStack ==
    [][op'[1] \in {"back", "forward"} => entries' = entries]_vars

ProgrammaticClose == {"closeBookDetail", "closeEpubReader", "displayRejected", "keyEscape"}

\* C4: select and read each push exactly one entry (the forward entries are
\* dropped, the new entry carries the modal's tag and becomes current); a
\* programmatic close leaves the stack length and the position unchanged and
\* touches no entry but the current one; the position moves backward only on
\* a browser back/forward.
C4_PushAndReplace ==
    [][/\ op'[1] = "showBookDetails" =>
             /\ index' = index + 1
             /\ entries' = SubSeq(entries, 1, index)
                    \o <<Entry(BookDetailState(books[op'[2]].name), entries'[index'].hash)>>
       /\ op'[1] = "openEpubReader" =>
             /\ index' = index + 1
             /\ entries' = SubSeq(entries, 1, index)
                    \o <<Entry(EpubReaderState(books[op'[2]].name), entries'[index'].hash)>>
       /\ op'[1] \in ProgrammaticClose =>
             /\ index' = index
             /\ Len(entries') = Len(entries)
             /\ \A i \in 1..Len(entries) : i # index => entries'[i] = entries[i]
       /\ index' < index => op'[1] \in {"back", "forward"}]_vars

\* C4 witness: a programmatic close has replaced the current entry in the
\* middle of the stack, with an entry still ahead of it.
C4_Witness ==
    /\ op[1] \in ProgrammaticClose
    /\ 1 < index /\ index < Len(entries)
    /\ entries[index] = Entry(NoState, EmptyStr)

-----------------------------------------------------------------------------
(* Reader session: claims C15 - C17 *)

\* no modal is open, no engine object is held or left alive, no listener is
\* registered, and the current history entry has neither tag nor fragment
ClosedState ==
    /\ ~showEpubReader /\ ~showBookDetail
    /\ currentBook = 0 /\ rendition = 0 /\ epubBook = 0 /\ live = 0
    /\ ~keydownListener
    /\ entries[index] = Entry(NoState, EmptyStr)

\* C15: if the engine's display() fails while the reader opened for book b is
\* shown, an alert is raised and the session is torn down in the same step:
\* the reader modal is closed, no engine instance is held, no keyboard
\* listener is registered, the detail modal is closed, and the application is
\* in the Closed state.
C15_FailedOpenTearsDown ==
    [][(op'[1] = "displayRejected" /\ showEpubReader /\ currentBook = op'[2]) =>
            (alerted' /\ ClosedState')]_vars

\* C15 witness: the open for book b has failed while its reader, opened
\* from b's detail view, was shown; the reader's history entry has lost its
\* tag and the application is closed.
C15_Witness ==
    /\ op[1] = "displayRejected" /\ readerWasShown
    /\ alerted /\ ClosedState
    /\ index = 3 /\ entries[2].state = BookDetailState(books[op[2]].name)
    /\ pending = <<>>

\* the step runs closeEpubReader: the close button, Escape with the listener
\* registered and a rendition held, a popstate for an entry without a reader
\* tag while the reader is shown, or a failed open
RunsCloseEpubReader ==
    \/ op'[1] \in {"closeEpubReader", "displayRejected"}
    \/ op'[1] = "keyEscape" /\ keydownListener /\ rendition # 0
    \/ /\ op'[1] \in {"back", "forward"}
       /\ showEpubReader
       /\ entries[index'].state.kind # "epubReader"

\* C16: right after closeEpubReader returns, whatever triggered it, the
\* reader modal is closed, currentBook is cleared, the rendition and the book
\* instance are destroyed and no longer held, and the keydown listener is not
\* registered.
C16_CloseTearsDown ==
    [][RunsCloseEpubReader =>
            /\ ~showEpubReader' /\ currentBook' = 0
            /\ rendition' = 0 /\ epubBook' = 0 /\ live' = 0
            /\ ~keydownListener']_vars

\* C16 witness: Escape has closed a reader whose display() had completed;
\* just before, the listener was registered and two engine objects were alive.
C16_Witness ==
    /\ op[1] = "keyEscape" /\ readerWasShown
    /\ ~showEpubReader /\ ~keydownListener /\ rendition = 0 /\ live = 0
    /\ entries[index] = Entry(NoState, EmptyStr) /\ index > 1
    /\ pending = <<>>

\* C17: in every state in which the reader modal is open, a left-arrow key
\* is relayed to the engine as prev, a right-arrow key as next, and Escape
\* closes the reader.
C17_KeysWhileOpen ==
    [][showEpubReader =>
            /\ op'[1] = "keyArrowLeft" => engineCmd' = "prev"
            /\ op'[1] = "keyArrowRight" => engineCmd' = "next"
            /\ op'[1] = "keyEscape" => ~showEpubReader']_vars

-----------------------------------------------------------------------------
(* URL fragment: claim C20 *)

\* window.location.hash
Fragment == entries[index].hash

BookFragment(name) == <<"#", "b", "o", "o", "k", "-">> \o encodeURIComponent(name)

ReadingFragment(name) ==
    <<"#", "r", "e", "a", "d", "i", "n", "g", "-">> \o encodeURIComponent(name)

\* C20: in every reachable state the URL fragment is '#book-{encoded name}'
\* exactly when the detail modal is open for that book, '#reading-{encoded
\* name}' exactly when the reader is open for it, and empty when neither
\* modal is open.
C20_FragmentMatchesModal ==
    /\ \A n \in BookNames :
          /\ DetailOpenFor(n) <=> Fragment = BookFragment(n)
          /\ ReaderOpenFor(n) <=> Fragment = ReadingFragment(n)
    /\ (~showBookDetail /\ ~showEpubReader) => Fragment = EmptyStr

-----------------------------------------------------------------------------
(* Navigation: claims C21, C22 *)

SameBook(b, c) == books[b].author = books[c].author /\ books[b].name = books[c].name

\* C21: when a back/forward lands on an entry pushed while book b's detail
\* view or reader was open, the view that is re-opened shows b itself (same
\* author, same name), also when a name is unique only within its author.
C21_ReopensSameBook ==
    op[1] \in {"back", "forward"} =>
        /\ (CurrentTag.kind = "bookDetail" /\ owners[index] # 0) =>
              showBookDetail /\ selectedBook # 0 /\ SameBook(selectedBook, owners[index])
        /\ (showEpubReader /\ ~readerWasShown /\ owners[index - 1] # 0) =>
              currentBook # 0 /\ SameBook(currentBook, owners[index - 1])

\* C22: selecting a book from the grid with no modal open and then pressing
\* browser back restores the closed state: the detail modal is hidden, no
\* book is selected and the reader is closed.
C22_BackRestoresClosed ==
    [][(op[1] = "showBookDetails" /\ op'[1] = "back")
          => (~showBookDetail' /\ selectedBook' = 0 /\ ~showEpubReader')]_vars

\* a book was selected from the closed state (the entry below is the untagged
\* one) and browser back has just hidden its detail view again
C22_Witness ==
    /\ op[1] = "back"
    /\ ~showBookDetail /\ selectedBook = 0 /\ ~showEpubReader
    /\ index = 1 /\ Len(entries) = 2
    /\ entries[2].state.kind = "bookDetail" /\ owners[2] = 3
    /\ pending = <<>> /\ live = 0

-----------------------------------------------------------------------------
(* Reader session: claims C27, C28 *)

\* C27: when display() of a reader opened for book a fails only after that
\* reader was closed and a reader for another book b was opened, the newer
\* session is not affected: b's reader stays open, its engine and listener
\* and the history entries are left as they were.
C27_StaleFailureSparesNewSession ==
    [][(op'[1] = "displayRejected" /\ showEpubReader /\ currentBook # op'[2])
          => /\ showEpubReader' /\ currentBook' = currentBook
             /\ rendition' = rendition /\ epubBook' = epubBook
             /\ keydownListener' = keydownListener
             /\ entries' = entries /\ index' = index]_vars

\* C28: in every reachable state the keydown listener is registered only
\* while the reader modal is open and a rendition is held.
C28_ListenerOnlyWhileOpen ==
    keydownListener => (showEpubReader /\ rendition # 0)

-----------------------------------------------------------------------------
(* Favorites store: actions and specification *)

\* the last two entries of the trail, after one more
Track(name, b) ==
    LET q == Append(trail, [op |-> <<name, b>>, favorites |-> favorites, stored |-> stored])
    IN  IF Len(q) > 2 THEN Tail(q) ELSE q

\* the state before the handler that ran last
Pre == trail[Len(trail)]

notFav == <<books, load, nav, filt, img>>

\* onMounted reaches loadFavorites()
LoadFavorites ==
    /\ ~mounted
    /\ favorites' = loadFavorites(favorites, stored)
    /\ mounted' = TRUE
    /\ threw' = FALSE
    /\ writeFailed' = FALSE
    /\ trail' = Track("loadFavorites", 0)
    /\ op' = <<"loadFavorites", 0>>
    /\ UNCHANGED <<stored, tab2, notFav>>

\* click on the favorite button of book b's detail view
ToggleFavorite ==
    \E b \in 1..Len(books), setItemThrows \in BOOLEAN :
        LET r == toggleFavorite(favorites, stored, books[b], setItemThrows)
        IN  /\ mounted
            /\ favorites' = r.favorites
            /\ stored' = r.stored
            /\ threw' = r.threw
            /\ writeFailed' = r.writeFailed
            /\ trail' = Track("toggleFavorite", b)
            /\ op' = <<"toggleFavorite", b>>
            /\ UNCHANGED <<mounted, tab2, notFav>>

\* the template evaluates isFavorite(book) for a card of the grid
RenderIsFavorite ==
    \E b \in 1..Len(books) :
        /\ mounted
        /\ threw' = isFavorite(favorites, books[b]).threw
        /\ op' = <<"isFavorite", b>>
        /\ UNCHANGED <<favorites, stored, mounted, writeFailed, trail, tab2, notFav>>

FavKeys == {getFavoriteKey(NavCatalog[i]) : i \in 1..Len(NavCatalog)}

\* the lists toggleFavorite can have written: no key twice
KeyLists ==
    {l \in UNION {[1..k -> FavKeys] : k \in 0..MaxStored} :
        \A i, j \in 1..Len(l) : i # j => l[i] # l[j]}

\* texts under the key that this program did not write: empty, cut short,
\* and well-formed JSON that is no array
ForeignTexts ==
    {EmptyStr,
     <<"[", Quote, "A", "|", "X">>,
     <<"n", "u", "l", "l">>,
     <<"{", "}">>,
     <<"5">>,
     Quoted(<<"A", "|", "X">>)}

InitialItems ==
    {Absent} \cup {Item(t) : t \in ForeignTexts}
             \cup {Item(stringify(JArray(l))) : l \in KeyLists}

NavInit ==
    /\ selectedBook = 0
    /\ showBookDetail = FALSE
    /\ showEpubReader = FALSE
    /\ currentBook = 0
    /\ epubBook = 0
    /\ rendition = 0
    /\ keydownListener = FALSE
    /\ entries = <<Entry(NoState, EmptyStr)>>
    /\ index = 1
    /\ pending = <<>>
    /\ live = 0
    /\ alerted = FALSE
    /\ engineCmd = "none"
    /\ readerWasShown = FALSE
    /\ owners = <<0>>

FilterInit ==
    /\ searchQuery = EmptyStr
    /\ selectedAuthor = EmptyStr
    /\ selectedCategory = EmptyStr
    /\ showFavoritesOnly = FALSE

\* the catalog has arrived; loadFavorites has not run yet
InitFav ==
    /\ books = NavCatalog
    /\ NavInit
    /\ FilterInit
    /\ favorites = JArray(<<>>)
    /\ stored \in InitialItems
    /\ mounted = FALSE
    /\ threw = FALSE
    /\ writeFailed = FALSE
    /\ tab2 = NoTab
    /\ trail = <<>>
    /\ ImgInit
    /\ LoadInit
    /\ op = <<"setup", 0>>

NextFav ==
    \/ LoadFavorites
    \/ ToggleFavorite
    \/ RenderIsFavorite

SpecFav == InitFav /\ [][NextFav]_vars

-----------------------------------------------------------------------------
(* Favorites store: claims C5 - C8 *)

Toggled == op[1] = "toggleFavorite"

\* the keys a stored item holds: those of the array it parses to, else none
Members(item) ==
    IF item.present /\ parse(item.text).ok /\ parse(item.text).value.type = "array"
    THEN {parse(item.text).value.items[i] :
             i \in 1..Len(parse(item.text).value.items)}
    ELSE {}

MembersOf(fv) == {fv.items[i] : i \in 1..Len(fv.items)}

\* C5 as claimed: after every toggleFavorite call the item stored under
\* 'epub-favorites' is exactly the serialization of the in-memory favorites.
C5_WriteThroughAlways == Toggled => stored = Item(stringify(favorites))

\* C5 as amended: after every toggleFavorite call the stored item is the
\* serialization of the in-memory favorites, unless storage rejected the
\* write or the call raised before saving, in which cases the stored item
\* is what it was before the call.
C5_WriteThrough ==
    Toggled =>
        IF writeFailed \/ threw THEN stored = Pre.stored
        ELSE stored = Item(stringify(favorites))

\* C5 witness: a toggle removed a key and the shorter list was written.
C5_Witness ==
    /\ Toggled /\ ~writeFailed /\ ~threw
    /\ Len(favorites.items) < Len(Pre.favorites.items)
    /\ stored = Item(stringify(favorites))
    /\ stored # Pre.stored

TwoTogglesOfOneBook ==
    /\ Len(trail) = 2
    /\ trail[1].op[1] = "toggleFavorite"
    /\ trail[2].op = trail[1].op

NotAKeyList(item) ==
    ~(item.present /\ parse(item.text).ok /\ parse(item.text).value.type = "array")

\* C8: whatever the key holds at startup (absent, not parseable, parseable
\* but no list of keys), loadFavorites completes, the favorites degrade to
\* the empty set, and every later isFavorite / toggleFavorite call completes.
C8_LoadDegrades ==
    /\ (op[1] = "loadFavorites" /\ NotAKeyList(stored)) => favorites = JArray(<<>>)
    /\ ~threw

-----------------------------------------------------------------------------
(* Two tabs on one origin: they share localStorage and nothing else *)

Tabs == {1, 2}

\* the favorites state of a tab
Tab(t) ==
    IF t = 1
    THEN [favorites |-> favorites, mounted |-> mounted, threw |-> threw,
          writeFailed |-> writeFailed]
    ELSE tab2

TabBecomes(t, r) ==
    IF t = 1
    THEN /\ favorites' = r.favorites
         /\ mounted' = r.mounted
         /\ threw' = r.threw
         /\ writeFailed' = r.writeFailed
         /\ UNCHANGED tab2
    ELSE /\ tab2' = r
         /\ UNCHANGED <<favorites, mounted, threw, writeFailed>>

\* onMounted of a tab reaches loadFavorites()
TabLoadFavorites ==
    \E t \in Tabs :
        /\ ~Tab(t).mounted
        /\ TabBecomes(t, [favorites |-> loadFavorites(Tab(t).favorites, stored),
                          mounted |-> TRUE, threw |-> FALSE, writeFailed |-> FALSE])
        /\ op' = <<"loadFavorites", 0, t>>
        /\ UNCHANGED <<stored, trail, notFav>>

\* click on the favorite button of book b in a tab
TabToggleFavorite ==
    \E t \in Tabs, b \in 1..Len(books), setItemThrows \in BOOLEAN :
        LET r == toggleFavorite(Tab(t).favorites, stored, books[b], setItemThrows)
        IN  /\ Tab(t).mounted
            /\ TabBecomes(t, [favorites |-> r.favorites, mounted |-> TRUE,
                              threw |-> r.threw, writeFailed |-> r.writeFailed])
            /\ stored' = r.stored
            /\ op' = <<"toggleFavorite", b, t>>
            /\ UNCHANGED <<trail, notFav>>

NextTabs ==
    \/ TabLoadFavorites
    \/ TabToggleFavorite

SpecTabs == InitFav /\ [][NextTabs]_vars

-----------------------------------------------------------------------------
(* Two tabs: claim C26 *)

\* the tab that ran the last handler
Acting == Tab(op[3])

-----------------------------------------------------------------------------
(* Favorites of a catalog whose strings contain the separator: claim C30 *)

BookPipeAuthor == Book(<<"A", "|", "X">>, <<"Y">>, EmptyStr, FALSE)
BookPipeName == Book(<<"A">>, <<"X", "|", "Y">>, EmptyStr, FALSE)

\* a loaded catalog with '|' in an author and in a name
PipeCatalog == <<BookPipeAuthor, BookPipeName, BookBY>>

\* the catalog has arrived; storage holds nothing, an empty list, or one key
\* written in an earlier session
InitKeys ==
    /\ books = PipeCatalog
    /\ NavInit
    /\ FilterInit
    /\ favorites = JArray(<<>>)
    /\ stored \in {Absent, Item(stringify(JArray(<<>>)))}
                    \cup {Item(stringify(JArray(<<getFavoriteKey(PipeCatalog[b])>>))) :
                             b \in 1..Len(PipeCatalog)}
    /\ mounted = FALSE
    /\ threw = FALSE
    /\ writeFailed = FALSE
    /\ tab2 = NoTab
    /\ trail = <<>>
    /\ ImgInit
    /\ LoadInit
    /\ op = <<"setup", 0>>

SpecKeys == InitKeys /\ [][NextFav]_vars

\* C30: toggleFavorite(b) changes the favorite status of b only: for every
\* book c whose (author, name) pair differs from b's, isFavorite(c) is the
\* same before and after the call, also when strings contain '|'.
C30_TogglesOneBook ==
    Toggled =>
        \A c \in 1..Len(books) :
            (books[c].author # books[op[2]].author \/ books[c].name # books[op[2]].name)
                => isFavorite(favorites, books[c]) = isFavorite(Pre.favorites, books[c])

-----------------------------------------------------------------------------
(* Filter engine *)

\* String.prototype.toLowerCase on one character
LowerChar(c) ==
    CASE c = "A" -> "a"
      [] c = "B" -> "b"
      [] c = "X" -> "x"
      [] c = "Y" -> "y"
      [] OTHER   -> c

toLowerCase(s) == [i \in 1..Len(s) |-> LowerChar(s[i])]

\* String.prototype.trim
RECURSIVE trimStart(_)
trimStart(s) == IF s # <<>> /\ Head(s) = " " THEN trimStart(Tail(s)) ELSE s

RECURSIVE trimEnd(_)
trimEnd(s) ==
    IF s # <<>> /\ s[Len(s)] = " " THEN trimEnd(SubSeq(s, 1, Len(s) - 1)) ELSE s

trim(s) == trimEnd(trimStart(s))

\* Array.prototype.filter
Filter(bs, Keep(_)) == SelectSeq(bs, Keep)

\* the search step without lower-casing the book's name
bySearchCaseSensitive(bs, q) ==
    IF trim(q) # EmptyStr
    THEN LET query == trim(toLowerCase(q))
         IN  Filter(bs, LAMBDA book : StrIncludes(book.name, query))
    ELSE bs

\* the search step of filteredBooks
bySearch(bs, q) ==
    IF trim(q) # EmptyStr
    THEN LET query == trim(toLowerCase(q))
         IN  Filter(bs, LAMBDA book : StrIncludes(toLowerCase(book.name), query))
    ELSE bs

\* the author step
byAuthor(bs, author) ==
    IF author # EmptyStr THEN Filter(bs, LAMBDA book : book.author = author) ELSE bs

\* the category step
byCategory(bs, category) ==
    IF category # EmptyStr THEN Filter(bs, LAMBDA book : book.category = category) ELSE bs

\* the favorites step
byFavorites(bs, favOnly, fv) ==
    IF favOnly THEN Filter(bs, LAMBDA book : isFavorite(fv, book).value) ELSE bs

\* author step that starts again from the whole catalog
filteredBooksAuthorFromAll(bs, q, author, category, favOnly, fv) ==
    LET searched == bySearch(bs, q)
        authored == IF author # EmptyStr THEN byAuthor(bs, author) ELSE searched
    IN  byFavorites(byCategory(authored, category), favOnly, fv)

\* category step that starts again from the whole catalog
filteredBooksCategoryFromAll(bs, q, author, category, favOnly, fv) ==
    LET authored == byAuthor(bySearch(bs, q), author)
        categorised == IF category # EmptyStr THEN byCategory(bs, category) ELSE authored
    IN  byFavorites(categorised, favOnly, fv)

\* filteredBooks: each step filters the result of the step before
filteredBooks(bs, q, author, category, favOnly, fv) ==
    byFavorites(byCategory(byAuthor(bySearch(bs, q), author), category), favOnly, fv)

\* the filtered view of the current state
View ==
    filteredBooks(books, searchQuery, selectedAuthor, selectedCategory,
                  showFavoritesOnly, favorites)

\* option values of the author <select>
AuthorOptions == {books[i].author : i \in 1..Len(books)}

\* option values of the category <select>: .filter(Boolean) drops the empty
\* and the missing ones
CategoryOptions == {books[i].category : i \in 1..Len(books)} \ {EmptyStr}

\* the UTF-16 code unit of a character
CharCode(c) ==
    CASE c = " " -> 32  [] c = "A" -> 65  [] c = "B" -> 66  [] c = "F" -> 70
      [] c = "P" -> 80  [] c = "X" -> 88  [] c = "Y" -> 89  [] c = "c" -> 99
      [] c = "e" -> 101 [] c = "i" -> 105 [] c = "n" -> 110 [] c = "o" -> 111
      [] c = "r" -> 114 [] c = "t" -> 116 [] c = "x" -> 120 [] c = "y" -> 121
      [] c = "|" -> 124

\* the default order of Array.prototype.sort on strings: by code units, a
\* proper prefix first
RECURSIVE StrLess(_, _)
StrLess(a, b) ==
    IF b = <<>> THEN FALSE
    ELSE IF a = <<>> THEN TRUE
    ELSE IF Head(a) = Head(b) THEN StrLess(Tail(a), Tail(b))
    ELSE CharCode(Head(a)) < CharCode(Head(b))

\* [...new Set(items)]: the distinct items in order of first occurrence
RECURSIVE SetSpread(_)
SetSpread(items) ==
    IF items = <<>> THEN <<>>
    ELSE LET front == SetSpread(SubSeq(items, 1, Len(items) - 1))
             last == items[Len(items)]
         IN  IF \E i \in 1..Len(front) : front[i] = last THEN front
             ELSE Append(front, last)

\* Array.prototype.sort() without a comparator
RECURSIVE Sort(_)
Sort(items) ==
    IF items = <<>> THEN <<>>
    ELSE LET rest == Sort(Tail(items))
             k == Cardinality({i \in 1..Len(rest) : ~StrLess(Head(items), rest[i])})
         IN  SubSeq(rest, 1, k) \o <<Head(items)>> \o SubSeq(rest, k + 1, Len(rest))

\* .filter(Boolean) on strings: the empty (and the missing) ones are dropped
FilterBoolean(items) == SelectSeq(items, LAMBDA x : x # EmptyStr)

\* the author facet computed over the filtered view instead of the catalog
authorsOfView == Sort(SetSpread([i \in 1..Len(View) |-> View[i].author]))

\* computed authors: unique authors of books.value, sorted
authors == Sort(SetSpread([i \in 1..Len(books) |-> books[i].author]))

\* computed categories: unique truthy categories of books.value, sorted
categories ==
    Sort(SetSpread(FilterBoolean([i \in 1..Len(books) |-> books[i].category])))

\* a missing category and an empty one behave alike everywhere: <<>> is both
BookAZ == Book(<<"A">>, <<"x", " ", "y">>, EmptyStr, FALSE)

BookPool == {BookAX, BookBY, BookBX, BookAZ}

\* texts typed into the search box
Queries == {EmptyStr, <<"y">>, <<" ", "y">>, <<"y", " ">>, <<" ">>, <<"X">>}

\* catalogs of distinct books, the two-book scenario catalog among them
Catalogs ==
    {c \in UNION {[1..k -> BookPool] : k \in 0..MaxCatalog} :
        \A i, j \in 1..Len(c) : i # j => c[i] # c[j]}

notFilt == <<books, load, nav, fav, img>>

\* v-model on the search input
SetSearchQuery ==
    \E q \in Queries :
        /\ CatalogShown
        /\ q # searchQuery
        /\ searchQuery' = q
        /\ op' = <<"searchQuery", 0>>
        /\ UNCHANGED <<selectedAuthor, selectedCategory, showFavoritesOnly, notFilt>>

\* v-model on the author <select>
SelectAuthor ==
    \E a \in AuthorOptions \cup {EmptyStr} :
        /\ CatalogShown
        /\ a # selectedAuthor
        /\ selectedAuthor' = a
        /\ op' = <<"selectedAuthor", 0>>
        /\ UNCHANGED <<searchQuery, selectedCategory, showFavoritesOnly, notFilt>>

\* v-model on the category <select>
SelectCategory ==
    \E c \in CategoryOptions \cup {EmptyStr} :
        /\ CatalogShown
        /\ c # selectedCategory
        /\ selectedCategory' = c
        /\ op' = <<"selectedCategory", 0>>
        /\ UNCHANGED <<searchQuery, selectedAuthor, showFavoritesOnly, notFilt>>

\* toggleFavoritesFilter()
ToggleFavoritesFilter ==
    /\ CatalogShown
    /\ showFavoritesOnly' = ~showFavoritesOnly
    /\ op' = <<"toggleFavoritesFilter", 0>>
    /\ UNCHANGED <<searchQuery, selectedAuthor, selectedCategory, notFilt>>

\* clearAllFilters(); its button is rendered while some filter is active
ClearAllFilters ==
    /\ CatalogShown
    /\ \/ selectedAuthor # EmptyStr
       \/ selectedCategory # EmptyStr
       \/ showFavoritesOnly
       \/ trim(searchQuery) # EmptyStr
    /\ selectedAuthor' = EmptyStr
    /\ selectedCategory' = EmptyStr
    /\ showFavoritesOnly' = FALSE
    /\ searchQuery' = EmptyStr
    /\ op' = <<"clearAllFilters", 0>>
    /\ UNCHANGED notFilt

\* the favorite button while filters are set; storage accepts the write (the
\* filter engine reads favorites.value only), and the trail is not kept
FavoriteWhileFiltering ==
    \E b \in 1..Len(books) :
        LET r == toggleFavorite(favorites, stored, books[b], FALSE)
        IN  /\ favorites' = r.favorites
            /\ stored' = r.stored
            /\ threw' = r.threw
            /\ writeFailed' = r.writeFailed
            /\ op' = <<"toggleFavorite", b>>
            /\ UNCHANGED <<mounted, trail, tab2, books, load, nav, filt, img>>

\* any catalog loaded, favorites loaded from an empty storage, no filter set
InitFilter ==
    /\ books \in Catalogs
    /\ NavInit
    /\ FilterInit
    /\ favorites = JArray(<<>>)
    /\ stored = Absent
    /\ mounted = TRUE
    /\ threw = FALSE
    /\ writeFailed = FALSE
    /\ tab2 = NoTab
    /\ trail = <<>>
    /\ ImgInit
    /\ LoadInit
    /\ op = <<"mounted", 0>>

NextFilter ==
    \/ SetSearchQuery
    \/ SelectAuthor
    \/ SelectCategory
    \/ ToggleFavoritesFilter
    \/ ClearAllFilters
    \/ FavoriteWhileFiltering

\* The watcher of filteredBooks starts a preload pass after each of these
\* steps; a pass writes the image cache only, which the filter engine never
\* reads, and is followed in SpecPreload.
SpecFilter == InitFilter /\ [][NextFilter]_vars

-----------------------------------------------------------------------------
(* Filter engine: claims C9, C10 *)

\* the search match of the filter engine: the query, trimmed and lower-cased,
\* occurs in the lower-cased name (an empty or blank query matches all)
SearchMatch(book) ==
    StrIncludes(toLowerCase(book.name), toLowerCase(trim(searchQuery)))

\* book satisfies every active constraint
Satisfies(book) ==
    /\ selectedAuthor # EmptyStr => book.author = selectedAuthor
    /\ selectedCategory # EmptyStr => book.category = selectedCategory
    /\ showFavoritesOnly => getFavoriteKey(book) \in MembersOf(favorites)
    /\ SearchMatch(book)

ScenarioCatalog == <<BookAX, BookBY>>

\* C9: the filtered view is exactly the catalog's subsequence, in catalog
\* order, of the books that satisfy all active constraints together; an unset
\* field constrains nothing.  On the scenario catalog, selectedAuthor = "A"
\* alone yields [X], and X favorited with favoritesOnly alone yields [X].
C9_ViewIsConjunction ==
    /\ View = SelectSeq(books, Satisfies)
    /\ (/\ books = ScenarioCatalog
        /\ selectedAuthor = <<"A">>
        /\ searchQuery = EmptyStr /\ selectedCategory = EmptyStr /\ ~showFavoritesOnly)
          => View = <<BookAX>>
    /\ (/\ books = ScenarioCatalog
        /\ favorites = JArray(<<getFavoriteKey(BookAX)>>) /\ showFavoritesOnly
        /\ searchQuery = EmptyStr /\ selectedAuthor = EmptyStr /\ selectedCategory = EmptyStr)
          => View = <<BookAX>>

\* C9 witness: on the scenario catalog, with X favorited, three constraints
\* are active at once and keep X only.
C9_Witness ==
    /\ books = ScenarioCatalog
    /\ favorites = JArray(<<getFavoriteKey(BookBY), getFavoriteKey(BookAX)>>)
    /\ showFavoritesOnly
    /\ selectedAuthor = <<"A">>
    /\ searchQuery = <<"X">>
    /\ View = <<BookAX>>

\* a is b with some elements left out, the order kept
RECURSIVE IsSubSequence(_, _)
IsSubSequence(a, b) ==
    IF a = <<>> THEN TRUE
    ELSE IF b = <<>> THEN FALSE
    ELSE IF Head(a) = Head(b) THEN IsSubSequence(Tail(a), Tail(b))
    ELSE IsSubSequence(a, Tail(b))

\* the filtered view under another filter state
ViewWith(q, author, category, favOnly) ==
    filteredBooks(books, q, author, category, favOnly, favorites)

\* C10: activating one more constraint never enlarges the result: for each
\* unset field of the filter state and each value it can be set to, the
\* filtered view with the field set is a sub-sequence of the current view.
C10_MoreConstraintsShrink ==
    /\ searchQuery = EmptyStr =>
          \A q \in Queries :
              IsSubSequence(ViewWith(q, selectedAuthor, selectedCategory,
                                     showFavoritesOnly), View)
    /\ selectedAuthor = EmptyStr =>
          \A a \in AuthorOptions :
              IsSubSequence(ViewWith(searchQuery, a, selectedCategory,
                                     showFavoritesOnly), View)
    /\ selectedCategory = EmptyStr =>
          \A c \in CategoryOptions :
              IsSubSequence(ViewWith(searchQuery, selectedAuthor, c,
                                     showFavoritesOnly), View)
    /\ ~showFavoritesOnly =>
          IsSubSequence(ViewWith(searchQuery, selectedAuthor, selectedCategory, TRUE),
                        View)

\* C10 witness: the category was set on top of an active author constraint
\* and the view, two books before, lost one; favoritesOnly is still unset
\* and setting it would empty the view.
C10_Witness ==
    /\ op[1] = "selectedCategory"
    /\ selectedCategory # EmptyStr /\ selectedAuthor # EmptyStr
    /\ Len(View) = 1
    /\ Len(ViewWith(searchQuery, selectedAuthor, EmptyStr, showFavoritesOnly)) = 2
    /\ ~showFavoritesOnly
    /\ ViewWith(searchQuery, selectedAuthor, selectedCategory, TRUE) = <<>>

-----------------------------------------------------------------------------
(* Filter engine: claim C11 *)

\* the books the search step keeps for the text in the search box
KeptBySearch == bySearch(books, searchQuery)

\* q, compared case-insensitively, occurs in the book's name
OccursIn(q, book) == StrIncludes(toLowerCase(book.name), toLowerCase(q))

\* C11 as claimed: the search constraint keeps a book exactly when
\* searchQuery as typed, compared case-insensitively, occurs in the book's
\* name; in particular a non-empty query with leading or trailing spaces
\* keeps no book whose name does not contain it as typed.
C11_SearchAsTyped ==
    KeptBySearch = SelectSeq(books, LAMBDA book : OccursIn(searchQuery, book))

\* C11 as amended: the search constraint keeps a book exactly when
\* searchQuery with its leading and trailing white space removed, compared
\* case-insensitively, occurs in the book's name (so a blank query keeps
\* every book); searchQuery "y" on the scenario catalog keeps exactly [Y].
C11_SearchTrimmed ==
    /\ KeptBySearch = SelectSeq(books, LAMBDA book : OccursIn(trim(searchQuery), book))
    /\ (books = ScenarioCatalog /\ searchQuery = <<"y">>) => KeptBySearch = <<BookBY>>

\* C11 witness: the query " y" keeps book Y, whose name does not contain
\* " y", and drops book X.
C11_Witness ==
    /\ books = ScenarioCatalog
    /\ searchQuery = <<" ", "y">>
    /\ KeptBySearch = <<BookBY>>
    /\ ~OccursIn(searchQuery, BookBY)

-----------------------------------------------------------------------------
(* Filter engine: claim C23 *)

IsSortedDistinct(items) ==
    \A i, j \in 1..Len(items) : i < j => StrLess(items[i], items[j])

Elements(items) == {items[i] : i \in 1..Len(items)}

\* C23: the author facet lists the distinct authors of the whole catalog in
\* sorted order, the category facet the distinct non-empty categories in
\* sorted order, and neither changes when a filter or the favorites change
\* (each facet is fixed by the catalog, which no such change touches).
C23_FacetsOfCatalog ==
    /\ [](/\ IsSortedDistinct(authors)
          /\ Elements(authors) = {books[i].author : i \in 1..Len(books)}
          /\ IsSortedDistinct(categories)
          /\ Elements(categories) =
                {books[i].category : i \in 1..Len(books)} \ {EmptyStr})
    /\ [][books' = books]_vars

\* a catalog listed out of order, narrowed to one author after a book was
\* marked favorite: the facets still list both authors and both categories
C23_Witness ==
    /\ books = <<BookBY, BookAX>>
    /\ selectedAuthor = <<"A">>
    /\ favorites.type = "array" /\ favorites.items # <<>>
    /\ Len(View) = 1
    /\ authors = <<<<"A">>, <<"B">>>>
    /\ categories = <<BookAX.category, BookBY.category>>

-----------------------------------------------------------------------------
(* Image cache *)

\* import.meta.env.VITE_API_BASE_URL
baseUrl == <<"/", "v", "1">>

\* getCacheKey(author, filename)
getCacheKey(author, filename) == author \o <<"|">> \o filename

\* Map.prototype.has / get / set on cachedImageUrls.value
MapHas(m, key) == key \in DOMAIN m

MapGet(m, key) == m[key]

MapSet(m, key, value) ==
    [k \in DOMAIN m \cup {key} |-> IF k = key THEN value ELSE m[k]]

\* what a resolution returns: a blob URL, a remote URL, or null
Unsettled == [kind |-> "unsettled", id |-> 0, text |-> EmptyStr]
BlobUrl(id) == [kind |-> "blob", id |-> id, text |-> EmptyStr]
RemoteUrl(text) == [kind |-> "remote", id |-> 0, text |-> text]
Null == [kind |-> "null", id |-> 0, text |-> EmptyStr]

\* `${baseUrl}/author/${encodedAuthor}/${encodedFilename}.jpg`
imgUrl(author, filename) ==
    baseUrl \o <<"/", "a", "u", "t", "h", "o", "r", "/">> \o encodeURIComponent(author)
        \o <<"/">> \o encodeURIComponent(filename) \o <<".", "j", "p", "g">>

\* isImageCached(author, filename)
isImageCached(flags, author, filename) == getCacheKey(author, filename) \in flags

\* markImageAsCached(author, filename)
markImageAsCached(flags, author, filename) == flags \cup {getCacheKey(author, filename)}

\* getCachedImageUrlForTemplate(author, filename)
getCachedImageUrlForTemplate(m, author, filename) ==
    IF MapHas(m, getCacheKey(author, filename))
    THEN BlobUrl(MapGet(m, getCacheKey(author, filename)))
    ELSE Null

\* the image cache as one record
I ==
    [cachedImageUrls |-> cachedImageUrls, imgFlags |-> imgFlags, calls |-> calls,
     blobCount |-> blobCount, passes |-> passes]

ImgBecomes(i) ==
    /\ cachedImageUrls' = i.cachedImageUrls
    /\ imgFlags' = i.imgFlags
    /\ calls' = i.calls
    /\ blobCount' = i.blobCount
    /\ passes' = i.passes

\* one call: pc is the await it is suspended at ("fetch1480", "blob1482",
\* "fetch1499", "blob1501") or "done"; fetches counts its fetch() calls;
\* lastFetch is how its latest fetch ended; after holds the calls that had
\* completed when it started
Call(author, filename, pc, fetches, result, after) ==
    [author |-> author, filename |-> filename, pc |-> pc, fetches |-> fetches,
     lastFetch |-> "none", result |-> result, after |-> after]

Completed(cs) == {j \in 1..Len(cs) : cs[j].pc = "done"}

\* cacheImage(author, filename) up to its first await or its return
cacheImage(i, author, filename) ==
    LET key == getCacheKey(author, filename)
        after == Completed(i.calls)
    IN  IF MapHas(i.cachedImageUrls, key)
        THEN [i EXCEPT !.calls = Append(@, Call(author, filename, "done", 0,
                                   BlobUrl(MapGet(i.cachedImageUrls, key)), after))]
        ELSE IF isImageCached(i.imgFlags, author, filename)
        THEN [i EXCEPT !.calls = Append(@, Call(author, filename, "fetch1480", 1,
                                                Unsettled, after))]
        ELSE [i EXCEPT !.calls = Append(@, Call(author, filename, "fetch1499", 1,
                                                Unsettled, after))]

\* getImageUrl(author, filename): the same look-up, then cacheImage
getImageUrl(i, author, filename) ==
    LET key == getCacheKey(author, filename)
    IN  IF MapHas(i.cachedImageUrls, key)
        THEN [i EXCEPT !.calls = Append(@, Call(author, filename, "done", 0,
                                   BlobUrl(MapGet(i.cachedImageUrls, key)),
                                   Completed(i.calls)))]
        ELSE cacheImage(i, author, filename)

\* cacheImage resumed after `await fetch(imgUrl)`; outcome is "ok" (response.ok),
\* "notOk" (a response that is not ok) or "rejected" (network error)
fetchSettled(i, c, outcome) ==
    LET call == i.calls[c]
    IN  IF call.pc = "fetch1480"
        THEN IF outcome = "ok"
             THEN [i EXCEPT !.calls[c].pc = "blob1482", !.calls[c].lastFetch = outcome]
             ELSE \* falls out of the re-caching block into the first-time block
                  [i EXCEPT !.calls[c].pc = "fetch1499", !.calls[c].lastFetch = outcome,
                            !.calls[c].fetches = @ + 1]
        ELSE IF outcome = "ok"
             THEN [i EXCEPT !.calls[c].pc = "blob1501", !.calls[c].lastFetch = outcome]
             ELSE [i EXCEPT !.calls[c].pc = "done", !.calls[c].lastFetch = outcome,
                            !.calls[c].result = RemoteUrl(imgUrl(call.author, call.filename))]

\* cacheImage resumed after `await response.blob()`; the body may fail to
\* arrive (bodyRead = FALSE), and localStorage.setItem may throw
blobSettled(i, c, bodyRead, setItemThrows) ==
    LET call == i.calls[c]
        key == getCacheKey(call.author, call.filename)
        blobUrl == i.blobCount + 1
        held == [i EXCEPT !.blobCount = blobUrl,
                          !.cachedImageUrls = MapSet(@, key, blobUrl)]
    IN  IF call.pc = "blob1482"
        THEN IF bodyRead
             THEN [held EXCEPT !.calls[c].pc = "done", !.calls[c].result = BlobUrl(blobUrl)]
             ELSE [i EXCEPT !.calls[c].pc = "fetch1499", !.calls[c].lastFetch = "rejected",
                            !.calls[c].fetches = @ + 1]
        ELSE IF ~bodyRead
             THEN [i EXCEPT !.calls[c].pc = "done", !.calls[c].lastFetch = "rejected",
                            !.calls[c].result = RemoteUrl(imgUrl(call.author, call.filename))]
             ELSE IF setItemThrows
             THEN \* thrown by markImageAsCached after the Map was written
                  [held EXCEPT !.calls[c].pc = "done",
                               !.calls[c].result = RemoteUrl(imgUrl(call.author, call.filename))]
             ELSE [held EXCEPT !.imgFlags = markImageAsCached(@, call.author, call.filename),
                               !.calls[c].pc = "done", !.calls[c].result = BlobUrl(blobUrl)]

\* filteredBooks.value.slice(0, 20): the number of books a pass looks at
PreloadLimit == 20

\* Array.prototype.slice(0, n)
slice(items, n) == SubSeq(items, 1, IF Len(items) < n THEN Len(items) ELSE n)

\* one run of preloadVisibleImages: the rest of visibleBooks still to visit,
\* the books cacheImage was called for, the call it awaits (0: it has
\* returned), and the filtered view it started on
Pass(visibleBooks, view) ==
    [queue |-> visibleBooks, attempted |-> <<>>, awaiting |-> 0, view |-> view]

\* the for loop of pass p, up to its next suspension at `await cacheImage`
\* or its end; a call that returns at once (the Map has the key) resumes the
\* loop in the same microtask checkpoint
RECURSIVE loop(_, _)
loop(i, p) ==
    LET pass == i.passes[p]
        book == Head(pass.queue)
        j == cacheImage(i, book.author, book.name)
        visited == [j EXCEPT !.passes[p].queue = Tail(@),
                             !.passes[p].attempted = Append(@, book)]
    IN  IF pass.queue = <<>> THEN [i EXCEPT !.passes[p].awaiting = 0]
        ELSE IF ~book.isCoverImg THEN loop([i EXCEPT !.passes[p].queue = Tail(@)], p)
        ELSE IF j.calls[Len(j.calls)].pc = "done" THEN loop(visited, p)
        ELSE [visited EXCEPT !.passes[p].awaiting = Len(j.calls)]

\* preloadVisibleImages() that takes the first 20 books with a cover
preloadVisibleImagesCoversFirst(i, view) ==
    loop([i EXCEPT !.passes =
              Append(@, Pass(slice(SelectSeq(view, LAMBDA b : b.isCoverImg),
                                   PreloadLimit), view))],
         Len(i.passes) + 1)

\* preloadVisibleImages(), run by the watcher of filteredBooks, up to its
\* first suspension
preloadVisibleImages(i, view) ==
    loop([i EXCEPT !.passes = Append(@, Pass(slice(view, PreloadLimit), view))],
         Len(i.passes) + 1)

\* the pass that awaits call c resumes once the call has returned
resumed(i, c) ==
    IF i.calls[c].pc = "done" /\ \E p \in 1..Len(i.passes) : i.passes[p].awaiting = c
    THEN loop(i, CHOOSE p \in 1..Len(i.passes) : i.passes[p].awaiting = c)
    ELSE i

notImg == <<books, load, nav, fav, filt>>

\* the books whose cover the program resolves
CoverBooks == {b \in 1..Len(books) : books[b].isCoverImg}

\* a cover is resolved for book b
ResolveCover ==
    \E b \in CoverBooks :
        /\ Len(calls) < MaxCalls
        /\ ImgBecomes(getImageUrl(I, books[b].author, books[b].name))
        /\ op' = <<"getImageUrl", b>>
        /\ UNCHANGED notImg

\* the network settles a fetch
FetchSettled ==
    \E c \in 1..Len(calls), outcome \in {"ok", "notOk", "rejected"} :
        /\ calls[c].pc \in {"fetch1480", "fetch1499"}
        /\ ImgBecomes(resumed(fetchSettled(I, c, outcome), c))
        /\ op' = <<"fetchSettled", c>>
        /\ UNCHANGED notImg

\* the body of a response has been read, or has failed to arrive
BlobSettled ==
    \E c \in 1..Len(calls), bodyRead \in BOOLEAN, setItemThrows \in BOOLEAN :
        /\ calls[c].pc \in {"blob1482", "blob1501"}
        /\ ImgBecomes(resumed(blobSettled(I, c, bodyRead, setItemThrows), c))
        /\ op' = <<"blobSettled", c>>
        /\ UNCHANGED notImg

CoverKeys ==
    {getCacheKey(NavCatalog[b].author, NavCatalog[b].name) :
        b \in {x \in 1..Len(NavCatalog) : NavCatalog[x].isCoverImg}}

\* a new session: the Map is empty, the flags are those of earlier sessions
InitImg ==
    /\ books = NavCatalog
    /\ NavInit
    /\ FilterInit
    /\ favorites = JArray(<<>>)
    /\ stored = Absent
    /\ mounted = TRUE
    /\ threw = FALSE
    /\ writeFailed = FALSE
    /\ tab2 = NoTab
    /\ trail = <<>>
    /\ cachedImageUrls = <<>>
    /\ imgFlags \in SUBSET CoverKeys
    /\ calls = <<>>
    /\ blobCount = 0
    /\ passes = <<>>
    /\ LoadInit
    /\ op = <<"mounted", 0>>

NextImg ==
    \/ ResolveCover
    \/ FetchSettled
    \/ BlobSettled

SpecImg == InitImg /\ [][NextImg]_vars

-----------------------------------------------------------------------------
(* Image cache: claims C12 - C14 *)

CallKey(c) == getCacheKey(calls[c].author, calls[c].filename)

\* call d started after call c had completed, both resolve the same key and
\* both have completed
InSuccession(c, d) ==
    /\ c \in calls[d].after
    /\ CallKey(c) = CallKey(d)
    /\ calls[d].pc = "done"

\* C12: two resolve calls for one key, the second started after the first
\* completed (whatever its outcome), perform at most one fetch in total.
C12_AtMostOneFetch ==
    \A c, d \in 1..Len(calls) :
        InSuccession(c, d) => calls[c].fetches + calls[d].fetches <= 1

\* the call has completed and its fetch failed: a network error or a
\* response that is not ok
FetchFailed(c) ==
    calls[c].pc = "done" /\ calls[c].lastFetch \in {"notOk", "rejected"}

\* C13: when the fetch for a cover key fails, the resolve call completes
\* without raising, returns null rather than a URL, and leaves no in-memory
\* handle for the key.
C13_FailureReturnsNull ==
    \A c \in 1..Len(calls) :
        (FetchFailed(c) /\ \A d \in 1..Len(calls) : d # c => CallKey(d) # CallKey(c)) =>
            /\ calls[c].result = Null
            /\ getCachedImageUrlForTemplate(cachedImageUrls, calls[c].author,
                                            calls[c].filename) = Null

\* C14: a successful fetch stores a blob handle in the Map and records the
\* durable flag: in every reachable state every key with an in-memory handle
\* has its durable fetched-once flag set.
C14_HandleImpliesFlag ==
    \A key \in DOMAIN cachedImageUrls : key \in imgFlags

-----------------------------------------------------------------------------
(* Image cache: claims C25, C29 *)

\* calls c and d resolve the same key, each was started before the other
\* had completed, and both have completed with a blob URL
ConcurrentSuccess(c, d) ==
    /\ c < d
    /\ CallKey(c) = CallKey(d)
    /\ c \notin calls[d].after
    /\ calls[c].pc = "done" /\ calls[c].result.kind = "blob"
    /\ calls[d].pc = "done" /\ calls[d].result.kind = "blob"

\* C25: concurrent fetch-and-cache calls for one key end like a single
\* successful call: the Map holds one handle for the key, the durable flag is
\* set, and every blob handle created for the key is the one the Map holds.
C25_ConcurrentAsOne ==
    \A c, d \in 1..Len(calls) :
        ConcurrentSuccess(c, d) =>
            /\ MapHas(cachedImageUrls, CallKey(c))
            /\ CallKey(c) \in imgFlags
            /\ calls[c].result.id = MapGet(cachedImageUrls, CallKey(c))
            /\ calls[d].result.id = MapGet(cachedImageUrls, CallKey(c))

\* C29: a single fetch-and-cache call issues at most one network request,
\* whatever the key's durable flag and whatever the outcome of the request.
C29_OneRequestPerCall ==
    \A c \in 1..Len(calls) : calls[c].fetches <= 1

-----------------------------------------------------------------------------
(* Preload passes: the watcher of filteredBooks *)

\* a catalog one book longer than a pass looks at; book k is named by k
\* letters; the last two books are by author B and declare a cover
PreloadCatalog ==
    [k \in 1..(PreloadLimit + 1) |->
        Book(IF k < PreloadLimit THEN <<"A">> ELSE <<"B">>,
             [j \in 1..k |-> "X"],
             EmptyStr,
             k >= PreloadLimit)]

\* the watcher callback: filteredBooks has been recomputed, and the pass
\* deferred by nextTick starts before any other task runs
Watcher(view) ==
    /\ Len(passes) < MaxPasses
    /\ ImgBecomes(preloadVisibleImages(I, view))

\* v-model on the author <select>, and the watcher
WatchedSelectAuthor ==
    \E a \in AuthorOptions \cup {EmptyStr} :
        /\ CatalogShown
        /\ a # selectedAuthor
        /\ selectedAuthor' = a
        /\ Watcher(filteredBooks(books, searchQuery, a, selectedCategory,
                                 showFavoritesOnly, favorites))
        /\ op' = <<"selectedAuthor", 0>>
        /\ UNCHANGED <<searchQuery, selectedCategory, showFavoritesOnly,
                       books, load, nav, fav>>

\* click on the favorites-only toggle, and the watcher
WatchedToggleFavoritesFilter ==
    /\ CatalogShown
    /\ showFavoritesOnly' = ~showFavoritesOnly
    /\ Watcher(filteredBooks(books, searchQuery, selectedAuthor, selectedCategory,
                             ~showFavoritesOnly, favorites))
    /\ op' = <<"toggleFavoritesFilter", 0>>
    /\ UNCHANGED <<searchQuery, selectedAuthor, selectedCategory,
                   books, load, nav, fav>>

\* the catalog has arrived and the watcher has run on the unfiltered view;
\* the cover of book 20 may have been fetched in an earlier session
InitPreload ==
    /\ books = PreloadCatalog
    /\ NavInit
    /\ FilterInit
    /\ favorites = JArray(<<>>)
    /\ stored = Absent
    /\ mounted = TRUE
    /\ threw = FALSE
    /\ writeFailed = FALSE
    /\ tab2 = NoTab
    /\ trail = <<>>
    /\ \E flags \in SUBSET {getCacheKey(PreloadCatalog[PreloadLimit].author,
                                         PreloadCatalog[PreloadLimit].name)} :
          LET i == preloadVisibleImages(
                       [cachedImageUrls |-> <<>>, imgFlags |-> flags, calls |-> <<>>,
                        blobCount |-> 0, passes |-> <<>>],
                       filteredBooks(PreloadCatalog, EmptyStr, EmptyStr, EmptyStr,
                                     FALSE, JArray(<<>>)))
          IN  /\ cachedImageUrls = i.cachedImageUrls
              /\ imgFlags = i.imgFlags
              /\ calls = i.calls
              /\ blobCount = i.blobCount
              /\ passes = i.passes
    /\ LoadInit
    /\ op = <<"mounted", 0>>

NextPreload ==
    \/ WatchedSelectAuthor
    \/ WatchedToggleFavoritesFilter
    \/ FetchSettled
    \/ BlobSettled

SpecPreload == InitPreload /\ [][NextPreload]_vars

-----------------------------------------------------------------------------
(* Preload passes: claim C24 *)

DeclaresCover(book) == book.isCoverImg

IsPrefix(a, b) == Len(a) <= Len(b) /\ a = SubSeq(b, 1, Len(a))

\* pass p has called cacheImage for the books of `expected`, in that order
\* and for no other book: for all of them once it has returned, and up to
\* the one whose call it awaits while it runs
Attempts(p, expected) ==
    /\ IsPrefix(passes[p].attempted, expected)
    /\ passes[p].awaiting = 0 => passes[p].attempted = expected
    /\ passes[p].awaiting # 0 =>
          /\ calls[passes[p].awaiting].pc # "done"
          /\ passes[p].attempted # <<>>
          /\ calls[passes[p].awaiting].author =
                passes[p].attempted[Len(passes[p].attempted)].author
          /\ calls[passes[p].awaiting].filename =
                passes[p].attempted[Len(passes[p].attempted)].name

\* the initial view and every change of the filtered view start one pass
OnePassPerView ==
    /\ [](passes # <<>> /\ passes[1].view = books)
    /\ [][View' # View => /\ Len(passes') = Len(passes) + 1
                          /\ passes'[Len(passes')].view = View']_vars

\* C24 as stated: a pass attempts the first 20 books of the filtered view
\* that declare a cover image.
C24_FirstTwentyWithCover ==
    /\ OnePassPerView
    /\ [](\A p \in 1..Len(passes) :
             Attempts(p, slice(SelectSeq(passes[p].view, DeclaresCover), PreloadLimit)))

\* C24: the initial view and every change of the filtered view start one
\* preload pass; a pass attempts fetch-and-cache for those of the first 20
\* books of the filtered view that declare a cover image, in view order, and
\* for no other book; a failed attempt does not stop the pass.
C24_CoversAmongFirstTwenty ==
    /\ OnePassPerView
    /\ [](\A p \in 1..Len(passes) :
             Attempts(p, SelectSeq(slice(passes[p].view, PreloadLimit), DeclaresCover)))

\* the pass on the 21-book view has returned: it attempted book 20 and left
\* out book 21, which declares a cover; after the view changed to the two
\* books of author B, the second pass attempted book 20 and, although that
\* fetch failed, book 21
C24_Witness ==
    /\ Len(passes) = 2
    /\ passes[1].view = books /\ Len(books) > PreloadLimit
    /\ books[PreloadLimit + 1].isCoverImg
    /\ passes[1].awaiting = 0
    /\ passes[1].attempted = <<books[PreloadLimit]>>
    /\ passes[2].view = <<books[PreloadLimit], books[PreloadLimit + 1]>>
    /\ passes[2].awaiting = 0
    /\ passes[2].attempted = passes[2].view
    /\ \E c \in 1..Len(calls) :
          /\ calls[c].filename = books[PreloadLimit].name
          /\ 1 \in calls[c].after
          /\ calls[c].pc = "done" /\ calls[c].lastFetch \in {"notOk", "rejected"}

-----------------------------------------------------------------------------
(* Catalog loader *)

\* the size below which a listed file is taken to be broken
SizeThreshold == 1407

\* book.size_in_bytes: a number, or undefined when the entry has no such field
Undefined == [defined |-> FALSE, value |-> 0]
Size(n) == [defined |-> TRUE, value |-> n]

\* an entry of res.data.book
Listed(book, size) ==
    [author |-> book.author, name |-> book.name, category |-> book.category,
     isCoverImg |-> book.isCoverImg, size_in_bytes |-> size]

\* what `await axios.get(...)` ends with: a response whose data.book is an
\* array, a response without one (the filter call then throws a TypeError), or
\* a rejection (network error, status outside 2xx)
NoReply == [kind |-> "none", book |-> <<>>]
OkReply(book) == [kind |-> "ok", book |-> book]
MalformedReply == [kind |-> "malformed", book |-> <<>>]
Rejection == [kind |-> "rejected", book |-> <<>>]

\* JavaScript truthiness of a size: undefined and 0 are falsy
Truthy(size) == size.defined /\ size.value # 0

\* the callback of res.data.book.filter
keepsEntry(book) ==
    ~Truthy(book.size_in_bytes) \/ book.size_in_bytes.value > SizeThreshold

\* the continuation without its finally block
onMountedResumedNoFinally(bs, r) ==
    IF r.kind = "ok"
    THEN [books |-> Filter(r.book, keepsEntry), error |-> FALSE, loading |-> FALSE]
    ELSE [books |-> bs, error |-> TRUE, loading |-> TRUE]

\* onMounted resumed after `await axios.get`: try, catch and finally
onMountedResumed(bs, r) ==
    IF r.kind = "ok"
    THEN [books |-> Filter(r.book, keepsEntry), error |-> FALSE, loading |-> FALSE]
    ELSE [books |-> bs, error |-> TRUE, loading |-> FALSE]

\* Vue runs the onMounted hook of the root component, once
Mount ==
    /\ requests = 0
    /\ requests' = requests + 1
    /\ op' = <<"onMounted", 0>>
    /\ UNCHANGED <<books, loading, error, reply, nav, fav, filt, img>>

Sizes == {Undefined, Size(0), Size(SizeThreshold - 1), Size(SizeThreshold),
          Size(SizeThreshold + 1)}

\* entries a summary.json can list: book X in every size, book Y in full size
Listings ==
    {Listed(BookAX, size) : size \in Sizes} \cup {Listed(BookBY, Size(SizeThreshold + 1))}

Replies ==
    {MalformedReply, Rejection}
        \cup {OkReply(book) : book \in UNION {[1..k -> Listings] : k \in 0..MaxResponse}}

\* the catalog request settles and onMounted runs to its end, loadFavorites
\* included
CatalogSettled ==
    \E r \in Replies :
        LET after == onMountedResumed(books, r)
        IN  /\ requests = 1 /\ reply = NoReply
            /\ reply' = r
            /\ books' = after.books
            /\ error' = (error \/ after.error)
            /\ loading' = after.loading
            /\ favorites' = loadFavorites(favorites, stored)
            /\ mounted' = TRUE
            /\ op' = <<"catalogSettled", 0>>
            /\ UNCHANGED <<requests, stored, threw, writeFailed, trail, tab2, nav, filt, img>>

\* the page has been opened; setup has run, onMounted has not
InitLoad ==
    /\ books = <<>>
    /\ loading = TRUE
    /\ error = FALSE
    /\ requests = 0
    /\ reply = NoReply
    /\ NavInit
    /\ FilterInit
    /\ favorites = JArray(<<>>)
    /\ stored = Absent
    /\ mounted = FALSE
    /\ threw = FALSE
    /\ writeFailed = FALSE
    /\ tab2 = NoTab
    /\ trail = <<>>
    /\ ImgInit
    /\ op = <<"setup", 0>>

NextLoad ==
    \/ Mount
    \/ CatalogSettled
    \/ SetSearchQuery
    \/ ClearAllFilters
    \/ SelectBook
    \/ CloseDetail
    \/ KeyEscape

SpecLoad == InitLoad /\ [][NextLoad]_vars

-----------------------------------------------------------------------------
(* Catalog loader: claims C18, C19 *)

Settled == reply # NoReply

\* C18: exactly one catalog request is issued per page session and it is
\* never retried; once it has completed the loading flag stays cleared, and
\* if it failed the error flag stays set and the catalog stays empty.
C18_OneLoad ==
    /\ requests <= 1
    /\ Settled => requests = 1
    /\ loading = ~Settled
    /\ Settled =>
          IF reply.kind = "ok" THEN ~error
          ELSE error /\ books = <<>> /\ View = <<>>

\* C18 witness: the request was rejected, and a key pressed afterwards found
\* the error flag still set and the catalog still empty.
C18_Witness ==
    /\ reply = Rejection
    /\ op[1] = "keyEscape"
    /\ requests = 1 /\ ~loading /\ error /\ books = <<>>

\* the entry's size is a number below the threshold
BelowThreshold(book) ==
    book.size_in_bytes.defined /\ book.size_in_bytes.value < SizeThreshold

\* C19: after a successful load the catalog is the response's book array in
\* its original order, with every entry whose size_in_bytes is below the
\* threshold excluded and every other entry kept.
C19_BelowThresholdExcluded ==
    reply.kind = "ok" =>
        books = SelectSeq(reply.book, LAMBDA book : ~BelowThreshold(book))

=============================================================================
